---- MODULE Spec2Model ----
(***************************************************************************)
(* Model of mcp-epsilla's server.py: the module-level configuration, the   *)
(* rate_limit decorator, the tool catalog list_tools and the dispatcher    *)
(* call_tool, which is registered wrapped in rate_limit.                   *)
(*                                                                         *)
(* Time is the value of datetime.now() in ticks.  Python values are        *)
(* records [type, val, items]; a text is the sequence of the pieces that   *)
(* were concatenated to build it.                                          *)
(***************************************************************************)
EXTENDS Integers, Sequences, FiniteSets, TLC

\* ------------------------------------------------------------------ bounds
MaxTime == 4
MaxInvocations == 4
MaxCalls == 2
MaxPeriod == 3
MaxTasks == 2
MaxDispatches == 2

Tasks == 1..MaxTasks
MainTask == 1

VARIABLES
    environ,        \* os.environ after load_dotenv(): variable -> value or Absent
    settings,       \* the module globals EPSILLA_PROJECT_ID, EPSILLA_API_KEY, EPSILLA_DB_ID
    startup,        \* position of the module's top-level code
    built,          \* the module-level objects constructed so far
    clock,          \* datetime.now()
    calls,          \* rate_limit's parameter calls
    period,         \* rate_limit's parameter period
    last_reset,     \* closure variable of decorator
    calls_made,     \* closure variable of decorator
    pc,             \* per task: "idle" or "sleeping" (inside asyncio.sleep)
    wake,           \* per task: the time asyncio.sleep(wait_time) is due
    frame,          \* per task: the wrapper's *args, kept across the sleep
    result,         \* what the latest finished invocation gave its caller
    invocations,    \* number of invocations of the wrapper so far
    hist            \* observer: one record per invocation of the wrapper

vars == <<environ, settings, startup, built, clock, calls, period, last_reset,
          calls_made, pc, wake, frame, result, invocations, hist>>

startupVars == <<environ, settings, startup, built>>
limiterVars == <<calls, period, last_reset, calls_made>>

\* ------------------------------------------------------------ Python values
PyStr(s) == [type |-> "str", val |-> s, items |-> <<>>]
PyInt(s) == [type |-> "int", val |-> s, items |-> <<>>]
PyNone == [type |-> "NoneType", val |-> "None", items |-> <<>>]
\* an object json cannot encode natively; val is what str() gives for it
PyObj(s) == [type |-> "object", val |-> s, items |-> <<>>]
\* a list whose only element is the list itself
Circular == [type |-> "circular", val |-> "[[...]]", items |-> <<>>]
\* list and tuple: items are <<"", value>>; dict: items are <<key, value>>
PyList(vs) == [type |-> "list", val |-> "", items |-> [i \in 1..Len(vs) |-> <<"", vs[i]>>]]
PyTuple(vs) == [type |-> "tuple", val |-> "", items |-> [i \in 1..Len(vs) |-> <<"", vs[i]>>]]
PyDict(kvs) == [type |-> "dict", val |-> "", items |-> kvs]

\* an exception: its class and the pieces of str(e)
Exc(cls, msg) == [cls |-> cls, msg |-> msg]
NoExc == Exc("", <<>>)
\* the outcome of evaluating an expression: a value, or an exception raised
Value(v) == [exc |-> NoExc, value |-> v]
Raise(cls, msg) == [exc |-> Exc(cls, msg), value |-> PyNone]
Raised(o) == o.exc # NoExc

\* the classes this model raises that derive from Exception
ExceptionClasses == {"Exception", "ValueError", "TypeError", "KeyError",
                     "IndexError", "ConnectionError"}

Contains(text, piece) == \E i \in 1..Len(text) : text[i] = piece

\* isinstance(arguments, dict)
IsDict(v) == v.type = "dict"

\* key in v, for a dict v
HasKey(v, key) == \E i \in 1..Len(v.items) : v.items[i][1] = key

\* v[key] for a str key
GetKey(v, key) ==
    IF v.type = "dict"
    THEN IF HasKey(v, key)
         THEN Value(v.items[CHOOSE i \in 1..Len(v.items) : v.items[i][1] = key][2])
         ELSE Raise("KeyError", <<"'", key, "'">>)
    ELSE IF v.type \in {"list", "tuple", "circular"}
    THEN Raise("TypeError", <<"list indices must be integers or slices, not str">>)
    ELSE IF v.type = "str"
    THEN Raise("TypeError", <<"string indices must be integers">>)
    ELSE Raise("TypeError", <<"'", v.type, "' object is not subscriptable">>)

\* v[i] for an int i >= 0
GetIndex(v, i) ==
    IF v.type \in {"list", "tuple"}
    THEN IF i + 1 <= Len(v.items)
         THEN Value(v.items[i + 1][2])
         ELSE Raise("IndexError", <<v.type, " index out of range">>)
    ELSE IF v.type = "circular"
    THEN IF i = 0 THEN Value(v) ELSE Raise("IndexError", <<"list index out of range">>)
    ELSE IF v.type = "dict"
    THEN Raise("KeyError", <<"1">>)
    ELSE Raise("TypeError", <<"'", v.type, "' object is not subscriptable">>)

\* ------------------------------------------------------------- json.dumps
RECURSIVE Encodable(_)
Encodable(v) ==
    /\ v.type # "circular"
    /\ \A i \in 1..Len(v.items) : Encodable(v.items[i][2])

RECURSIVE Encode(_)
RECURSIVE EncodeItems(_, _, _)
EncodeItems(v, i, keyed) ==
    IF i > Len(v.items) THEN <<>>
    ELSE (IF i > 1 THEN <<", ">> ELSE <<>>)
         \o (IF keyed THEN <<"\"", v.items[i][1], "\": ">> ELSE <<>>)
         \o Encode(v.items[i][2])
         \o EncodeItems(v, i + 1, keyed)

\* the text json gives an encodable value; default=str turns what json cannot
\* encode natively into its str()
Encode(v) ==
    CASE v.type = "str" -> <<"\"", v.val, "\"">>
      [] v.type = "int" -> <<v.val>>
      [] v.type = "NoneType" -> <<"null">>
      [] v.type = "object" -> <<"\"", v.val, "\"">>
      [] v.type \in {"list", "tuple"} -> <<"[">> \o EncodeItems(v, 1, FALSE) \o <<"]">>
      [] v.type = "dict" -> <<"{">> \o EncodeItems(v, 1, TRUE) \o <<"}">>
      [] OTHER -> <<>>

\* json.dumps({key: v}, indent=2, default=str)
JsonDumps(key, v) ==
    IF Encodable(v)
    THEN [exc |-> NoExc, text |-> <<"{", "\"", key, "\": ">> \o Encode(v) \o <<"}">>]
    ELSE [exc |-> Exc("ValueError", <<"Circular reference detected">>), text |-> <<>>]

\* ------------------------------------------------------- the remote service
\* db_client.list_tables() and db_client.create_table(name=...): the service is
\* external, so what it does on a call is an input, a return or a raise
RemoteCall(remote) ==
    IF remote.kind = "raise"
    THEN Raise(remote.cls, <<remote.msg>>)
    ELSE Value(remote.value)

\* ---------------------------------------------------------------- list_tools
Tool(name, description, required) ==
    [name |-> name, description |-> description, required |-> required]

list_tools ==
    << Tool("list_dbs", "List all dbs you have access to", {}),
       Tool("create_table", "Create a new table in Epsilla for storing documents",
            {"name"}) >>

CatalogNames == {list_tools[i].name : i \in 1..Len(list_tools)}

\* ----------------------------------------------------------------- call_tool
TextContent(text) == [type |-> "text", text |-> text]

MissingNameUnchecked(arguments) == FALSE

\* line 144: not isinstance(arguments, dict) or "name" not in arguments
MissingName(arguments) == ~IsDict(arguments) \/ ~HasKey(arguments, "name")

\* the body of call_tool's try block: the text it returns or the exception it
\* raises, with the remote operations it invoked on the way (the operation, its
\* argument, and what the service did)
ListTablesBranch(remote) ==
    LET tables == RemoteCall(remote)
        ops == <<[op |-> "list_tables", arg |-> PyNone, did |-> remote]>>
        dumped == JsonDumps("tables", tables.value)
    IN  IF Raised(tables) THEN [exc |-> tables.exc, text |-> <<>>, remote_ops |-> ops]
        ELSE [exc |-> dumped.exc, text |-> dumped.text, remote_ops |-> ops]

CreateTableBranch(arguments, remote) ==
    IF MissingName(arguments)
    THEN [exc |-> Exc("ValueError", <<"Missing required parameter: '", "name", "'">>),
          text |-> <<>>, remote_ops |-> <<>>]
    ELSE
    LET arg == GetKey(arguments, "name")
        resp == RemoteCall(remote)
        ops == <<[op |-> "create_table", arg |-> arg.value, did |-> remote]>>
        info == GetIndex(resp.value, 1)
        dumped == JsonDumps("info", info.value)
    IN  IF Raised(arg) THEN [exc |-> arg.exc, text |-> <<>>, remote_ops |-> <<>>]
        ELSE IF Raised(resp) THEN [exc |-> resp.exc, text |-> <<>>, remote_ops |-> ops]
        ELSE IF Raised(info) THEN [exc |-> info.exc, text |-> <<>>, remote_ops |-> ops]
        ELSE [exc |-> dumped.exc, text |-> dumped.text, remote_ops |-> ops]

TryBlock(name, arguments, remote) ==
    IF name = "list_tables" THEN ListTablesBranch(remote)
    ELSE IF name = "create_table" THEN CreateTableBranch(arguments, remote)
    ELSE [exc |-> Exc("ValueError", <<"Unknown tool: ", name>>),
          text |-> <<>>, remote_ops |-> <<>>]

\* line 157: the prefix of error_message
ErrorPrefix == "Epsilla API error: "

CatchesValueErrorOnly(exc) == exc.cls = "ValueError"

\* except Exception as e: does the first except clause catch e
Catches(exc) == exc.cls \in ExceptionClasses

\* call_tool as written (undecorated): what its caller gets
call_tool(name, arguments, remote) ==
    LET try == TryBlock(name, arguments, remote)
    IN  IF ~Raised(try)
        THEN [exc |-> NoExc, ret |-> <<TextContent(try.text)>>,
              remote_ops |-> try.remote_ops]
        ELSE IF Catches(try.exc)
        THEN [exc |-> NoExc,
              ret |-> <<TextContent(<<ErrorPrefix>> \o try.exc.msg)>>,
              remote_ops |-> try.remote_ops]
        ELSE [exc |-> try.exc, ret |-> <<>>, remote_ops |-> try.remote_ops]

\* -------------------------------------------------------------------- inputs
Names == {"list_tables", "create_table", "list_dbs", "drop_table"}

ArgValues ==
    { PyNone,
      PyList(<<PyStr("name")>>),
      PyDict(<<>>),
      PyDict(<< <<"name", PyStr("docs")>> >>),
      PyDict(<< <<"name", PyStr("")>> >>),
      PyDict(<< <<"name", PyInt("5")>> >>) }

RemoteValues ==
    { PyList(<<PyStr("docs")>>),
      PyTuple(<<PyInt("200"), PyStr("created")>>),
      PyTuple(<<PyInt("200"), Circular>>),
      PyTuple(<<PyInt("500")>>),
      PyObj("<Response [200]>") }

RemoteBehaviours ==
    { [kind |-> "return", value |-> v, cls |-> "", msg |-> ""] : v \in RemoteValues }
    \cup { [kind |-> "raise", value |-> PyNone, cls |-> "ConnectionError",
            msg |-> "connection refused"] }

\* the inputs of one invocation: name, arguments and what the remote service does
Inputs == Names \X ArgValues \X RemoteBehaviours

\* one ordinary request, for the runs that are about timing
PlainInputs ==
    { <<"list_tables", PyDict(<<>>),
        [kind |-> "return", value |-> PyList(<<PyStr("docs")>>), cls |-> "", msg |-> ""]>> }

\* ---------------------------------------------------------------- rate_limit
\* line 77: (now - last_reset).total_seconds() > period
PeriodPassed(now) == now - last_reset > period

\* lines 78-79: the counter and the window start after the first if
CounterAfterCheck(now) == IF PeriodPassed(now) THEN 0 ELSE calls_made
WindowAfterCheck(now) == IF PeriodPassed(now) THEN now ELSE last_reset

\* line 82: calls_made >= calls
LimitHit(now) == CounterAfterCheck(now) >= calls

WaitTimeReversed(now) == (now - WindowAfterCheck(now)) - period

\* line 83: wait_time = period - (now - last_reset).total_seconds()
WaitTime(now) == period - (now - WindowAfterCheck(now))

\* lines 82-84: the wrapper goes to asyncio.sleep
MustSleep(now) == LimitHit(now) /\ WaitTime(now) > 0

NoResult ==
    [task |-> 0, name |-> "", arguments |-> PyNone, exc |-> NoExc, ret |-> <<>>,
     remote_ops |-> <<>>]

\* line 90: return await func(*args, **kwargs): func's return value or
\* exception goes to the wrapper's caller as it is
Returned(t, name, arguments, remote) ==
    LET out == call_tool(name, arguments, remote)
    IN  [task |-> t, name |-> name, arguments |-> arguments, exc |-> out.exc,
         ret |-> out.ret, remote_ops |-> out.remote_ops]

NoFrame == [name |-> "", arguments |-> PyNone]

\* wrapper, lines 72-90, from its call to its return or to asyncio.sleep
Enter(t, name, arguments, remote) ==
    /\ startup = "serving"
    /\ pc[t] = "idle"
    /\ invocations < MaxInvocations
    /\ invocations' = invocations + 1
    /\ LET now == clock
       IN  IF MustSleep(now)
           THEN /\ pc' = [pc EXCEPT ![t] = "sleeping"]
                /\ wake' = [wake EXCEPT ![t] = now + WaitTime(now)]
                /\ frame' = [frame EXCEPT ![t] = [name |-> name, arguments |-> arguments]]
                /\ calls_made' = CounterAfterCheck(now)
                /\ last_reset' = WindowAfterCheck(now)
                /\ UNCHANGED result
           ELSE /\ calls_made' = CounterAfterCheck(now) + 1
                /\ last_reset' = WindowAfterCheck(now)
                /\ result' = Returned(t, name, arguments, remote)
                /\ UNCHANGED <<pc, wake, frame>>
    /\ UNCHANGED <<startupVars, clock, calls, period>>

\* wrapper, lines 85-90: asyncio.sleep(wait_time) is over, at its due time or later
Resume(t, remote) ==
    /\ pc[t] = "sleeping"
    /\ clock >= wake[t]
    /\ last_reset' = clock
    /\ calls_made' = 0 + 1
    /\ result' = Returned(t, frame[t].name, frame[t].arguments, remote)
    /\ pc' = [pc EXCEPT ![t] = "idle"]
    /\ wake' = [wake EXCEPT ![t] = 0]
    /\ frame' = [frame EXCEPT ![t] = NoFrame]
    /\ UNCHANGED <<startupVars, clock, calls, period, invocations>>

\* time passes
Tick ==
    /\ startup = "serving"
    /\ clock < MaxTime
    /\ clock' = clock + 1
    /\ UNCHANGED <<startupVars, limiterVars, pc, wake, frame, result, invocations, hist>>

\* ------------------------------------------------- module-level configuration
EnvNames == {"EPSILLA_PROJECT_ID", "EPSILLA_API_KEY", "EPSILLA_DB_ID"}

\* os.getenv's view of a variable: not in the environment, set to "", or set
Absent == "<absent>"
EnvValues == {Absent, "", "value"}

\* the second argument of os.getenv, lines 27-29
Default(v) ==
    CASE v = "EPSILLA_PROJECT_ID" -> "Your-Epsilla-Project-ID"
      [] v = "EPSILLA_API_KEY" -> "Your-Epsilla-API-Key"
      [] v = "EPSILLA_DB_ID" -> "Your-Epsilla-DB-ID"

\* os.getenv(v, default)
GetEnv(v) == IF environ[v] = Absent THEN Default(v) ELSE environ[v]

NoSettings == [v \in EnvNames |-> ""]

\* lines 27-29
ReadEnvironment ==
    /\ startup = "getenv"
    /\ settings' = [v \in EnvNames |-> GetEnv(v)]
    /\ startup' = "check_project_id"
    /\ UNCHANGED <<environ, built, clock, limiterVars, pc, wake, frame, result,
                   invocations, hist>>

\* if not X: raise ValueError(...), which ends the import of the module
CheckSetting(at, v, next) ==
    /\ startup = at
    /\ startup' = IF settings[v] = "" THEN "failed" ELSE next
    /\ UNCHANGED <<environ, settings, built, clock, limiterVars, pc, wake, frame,
                   result, invocations, hist>>

\* lines 31-32
CheckProjectId == CheckSetting("check_project_id", "EPSILLA_PROJECT_ID", "check_api_key")
\* lines 34-35
CheckApiKey == CheckSetting("check_api_key", "EPSILLA_API_KEY", "check_db_id")
\* lines 37-38
CheckDbId == CheckSetting("check_db_id", "EPSILLA_DB_ID", "cloud_client")

Construct(at, object, next) ==
    /\ startup = at
    /\ built' = built \cup {object}
    /\ startup' = next
    /\ UNCHANGED <<environ, settings, clock, limiterVars, pc, wake, frame, result,
                   invocations, hist>>

\* lines 43-47
ConnectCloud == Construct("cloud_client", "cloud_client", "db_client")
\* line 50
ConnectDb == Construct("db_client", "db_client", "server")
\* line 54
CreateServer == Construct("server", "server", "call_tool")

\* lines 134-136 with 67-69: rate_limit(...) is applied to call_tool and the
\* handler is registered; the closure starts with last_reset = now, calls_made = 0
Decorate ==
    /\ startup = "call_tool"
    /\ last_reset' = clock
    /\ calls_made' = 0
    /\ built' = built \cup {"call_tool"}
    /\ startup' = "main"
    /\ UNCHANGED <<environ, settings, clock, calls, period, pc, wake, frame, result,
                   invocations, hist>>

\* lines 174-186: main() runs the server
Serve ==
    /\ startup = "main"
    /\ startup' = "serving"
    /\ UNCHANGED <<environ, settings, built, clock, limiterVars, pc, wake, frame,
                   result, invocations, hist>>

AllBuilt == {"cloud_client", "db_client", "server", "call_tool"}

\* ------------------------------------------------------------ specifications
\* what rate_limit is built with: calls a positive integer, period positive
Parameters ==
    /\ calls \in 1..MaxCalls
    /\ period \in 1..MaxPeriod

Quiet ==
    /\ clock = 0
    /\ last_reset = 0
    /\ calls_made = 0
    /\ pc = [t \in Tasks |-> "idle"]
    /\ wake = [t \in Tasks |-> 0]
    /\ frame = [t \in Tasks |-> NoFrame]
    /\ result = NoResult
    /\ invocations = 0
    /\ hist = <<>>

\* the module is about to be imported, in any environment
InitStartup ==
    /\ environ \in [EnvNames -> EnvValues]
    /\ settings = NoSettings
    /\ startup = "getenv"
    /\ built = {}
    /\ Parameters
    /\ Quiet

NextStartup ==
    \/ ReadEnvironment
    \/ CheckProjectId
    \/ CheckApiKey
    \/ CheckDbId
    \/ ConnectCloud
    \/ ConnectDb
    \/ CreateServer
    \/ Decorate
    \/ Serve

SpecStartup == InitStartup /\ [][NextStartup]_vars

\* the server is up, with every identifier set
Init ==
    /\ environ = [v \in EnvNames |-> "value"]
    /\ settings = [v \in EnvNames |-> "value"]
    /\ startup = "serving"
    /\ built = AllBuilt
    /\ Parameters
    /\ Quiet

\* the observer's record of an invocation that enters the wrapper at clock
Entry(t) ==
    [task |-> t, start |-> clock, window |-> WindowAfterCheck(clock),
     limited |-> LimitHit(clock),
     exec |-> IF MustSleep(clock) THEN -1 ELSE clock,
     counter |-> calls_made', reset |-> last_reset']

\* the entry of hist for task t's invocation that has not run func yet
Pending(t) == CHOOSE i \in 1..Len(hist) : hist[i].task = t /\ hist[i].exec = -1

\* one call after the other: the next invocation starts when none is under way
Call(in) ==
    /\ \A u \in Tasks : pc[u] = "idle"
    /\ Enter(MainTask, in[1], in[2], in[3])
    /\ hist' = Append(hist, Entry(MainTask))

Wakeup(remote) ==
    /\ Resume(MainTask, remote)
    /\ hist' = [hist EXCEPT ![Pending(MainTask)] =
                   [@ EXCEPT !.exec = clock, !.counter = calls_made',
                             !.reset = last_reset']]

Next ==
    \/ Tick
    \/ \E in \in PlainInputs : Call(in)
    \/ \E in \in PlainInputs : Wakeup(in[3])

Spec == Init /\ [][Next]_vars

\* invocations as the event loop allows them: a task may enter the wrapper
\* while another is inside asyncio.sleep
Invoke(t, in) ==
    /\ Enter(t, in[1], in[2], in[3])
    /\ UNCHANGED hist

Awake(t, remote) ==
    /\ Resume(t, remote)
    /\ UNCHANGED hist

NextConc ==
    \/ Tick
    \/ \E t \in Tasks, in \in PlainInputs : Invoke(t, in)
    \/ \E t \in Tasks, in \in PlainInputs : Awake(t, in[3])

SpecConc == Init /\ [][NextConc]_vars

\* one call after the other, with any name, any arguments and any behaviour of
\* the remote service
Dispatch(in) ==
    /\ \A u \in Tasks : pc[u] = "idle"
    /\ invocations < MaxDispatches
    /\ Enter(MainTask, in[1], in[2], in[3])
    /\ UNCHANGED hist

DispatchLate(remote) ==
    /\ Resume(MainTask, remote)
    /\ UNCHANGED hist

NextDispatch ==
    \/ Tick
    \/ \E in \in Inputs : Dispatch(in)
    \/ \E remote \in RemoteBehaviours : DispatchLate(remote)

SpecDispatch == Init /\ [][NextDispatch]_vars

\* ==================================================================== claims
Executed(i) == hist[i].exec >= 0

\* invocations i..j are issued back to back: each starts at the time the one
\* before it returned
BackToBack(i, j) == \A k \in i..(j - 1) : Executed(k) /\ hist[k + 1].start = hist[k].exec

\* C1: with calls=N and period=T, no time interval of length T contains the
\* start of more than N executions of the wrapped operation: the (i+N)-th
\* execution starts at least T after the i-th.
C1_AtMostCallsPerPeriod ==
    \A i \in 1..Len(hist) :
        (i + calls <= Len(hist) /\ Executed(i) /\ Executed(i + calls))
            => hist[i + calls].exec - hist[i].exec >= period

\* the latest invocation has returned to its caller
Finished == result.task # 0

\* the result is one text item that carries an error message
IsErrorEnvelope(r) ==
    /\ r.exc = NoExc
    /\ Len(r.ret) = 1
    /\ r.ret[1].type = "text"
    /\ Len(r.ret[1].text) >= 1
    /\ r.ret[1].text[1] = ErrorPrefix

Invoked(r, op) == \E i \in 1..Len(r.remote_ops) : r.remote_ops[i].op = op

\* C2: call_tool, for every name, every argument value and every behaviour of
\* the remote service, returns exactly one text content item and lets no
\* exception reach its caller; when the remote operation raised, the item's
\* text contains the remote failure's message.
C2_AlwaysOneTextItem ==
    Finished =>
        /\ result.exc = NoExc
        /\ Len(result.ret) = 1
        /\ result.ret[1].type = "text"
        /\ \A i \in 1..Len(result.remote_ops) :
               result.remote_ops[i].did.kind = "raise"
                   => Contains(result.ret[1].text, result.remote_ops[i].did.msg)

\* a call whose remote operation raised has returned
C2_Witness ==
    /\ Finished
    /\ \E i \in 1..Len(result.remote_ops) : result.remote_ops[i].did.kind = "raise"
    /\ Len(result.ret) = 1

\* the argument bag is not a mapping or has no key name
NotMappingOrNoName(a) ==
    \/ a.type # "dict"
    \/ \A i \in 1..Len(a.items) : a.items[i][1] # "name"

\* C3: create_table with an argument bag that is not a mapping or lacks the
\* key name returns an error envelope whose text mentions name, and the remote
\* create_table operation is not invoked during that call.
C3_MissingNameRejected ==
    (Finished /\ result.name = "create_table" /\ NotMappingOrNoName(result.arguments))
        => /\ IsErrorEnvelope(result)
           /\ Contains(result.ret[1].text, "name")
           /\ ~Invoked(result, "create_table")

\* create_table was called with a bag that is no mapping, and with a mapping
\* without name
C3_Witness ==
    /\ Finished
    /\ result.name = "create_table"
    /\ NotMappingOrNoName(result.arguments)
    /\ result.arguments.type \in {"list", "dict"}
    /\ IsErrorEnvelope(result)

ValidFor(name, a) ==
    /\ a.type = "dict"
    /\ \A i \in 1..Len(list_tools) :
           list_tools[i].name = name =>
               \A key \in list_tools[i].required :
                   \E j \in 1..Len(a.items) : a.items[j][1] = key

IsUnknownTool(r) ==
    /\ Len(r.ret) = 1
    /\ Contains(r.ret[1].text, "Unknown tool: ")

\* C5: the names list_tools returns are the names call_tool dispatches to a
\* remote operation: a catalogued name with valid arguments is not answered
\* with the unknown-operation error, and a name that call_tool takes to the
\* remote service is in the catalog.
C5_CatalogIsDispatched ==
    Finished =>
        /\ (result.name \in CatalogNames /\ ValidFor(result.name, result.arguments))
               => ~IsUnknownTool(result)
        /\ result.remote_ops # <<>> => result.name \in CatalogNames

\* C6: call_tool with name create_table invokes the remote create_table
\* operation only when arguments.name is a non-empty string; with a name that
\* is empty or not a string the call returns an error envelope and the remote
\* service is not called.
C6_NameIsNonEmptyString ==
    (Finished /\ result.name = "create_table")
        => /\ \A i \in 1..Len(result.remote_ops) :
                  result.remote_ops[i].op = "create_table"
                      => /\ result.remote_ops[i].arg.type = "str"
                         /\ result.remote_ops[i].arg.val # ""
           /\ (/\ ~NotMappingOrNoName(result.arguments)
               /\ \E j \in 1..Len(result.arguments.items) :
                      /\ result.arguments.items[j][1] = "name"
                      /\ \/ result.arguments.items[j][2].type # "str"
                         \/ result.arguments.items[j][2].val = "")
                  => IsErrorEnvelope(result) /\ result.remote_ops = <<>>

\* C7: if any of EPSILLA_PROJECT_ID, EPSILLA_API_KEY, EPSILLA_DB_ID is absent
\* from the environment, startup fails before the remote client, the server
\* and the dispatcher are constructed, and the serving state is never reached.
C7_AbsentIdentifierStopsStartup ==
    (\E v \in EnvNames : environ[v] = Absent)
        => /\ built = {}
           /\ startup # "serving"
           /\ startup \in {"getenv", "check_project_id", "check_api_key",
                           "check_db_id", "failed"}

\* C8: under sequential invocations the window counter calls_made is at most
\* calls in every reachable state.
C8_CounterAtMostCalls == calls_made <= calls

\* C9: an invocation that finds the counter at calls has the counter reset to
\* zero and the window start set to the current time before the increment,
\* whether or not it slept: when the wrapped operation runs, the counter is 1
\* and last_reset is the time of that moment.
C9_ResetWheneverLimitHit ==
    \A i \in 1..Len(hist) :
        (hist[i].limited /\ Executed(i))
            => /\ hist[i].counter = 1
               /\ hist[i].reset = hist[i].exec

\* C10: calls that share the limiter never overlap: while one invocation is
\* inside the wrapper, its sleep included, no other invocation is inside it.
C10_OneInvocationAtATime == Cardinality({t \in Tasks : pc[t] # "idle"}) <= 1
====
